---- MODULE Spec2Model ----
(***************************************************************************)
(* Model of src/src/rotamer.cpp: the belief-propagation rotamer solver.    *)
(*                                                                         *)
(* Four state machines share this module:                                 *)
(*   SpecStore  the AoSoA storage SimdVecArrayStorage and load_whole_vec   *)
(*   SpecEdge   one EdgeHolder driven by reset() / add_to_edge()           *)
(*   Spec       RotamerSidechain: construction and compute_value           *)
(*   SpecSolve  the same solver, ranging over the iteration parameters     *)
(* Each specification leaves the variables of the others at their idle     *)
(* values.                                                                 *)
(*                                                                         *)
(* Floats.  Probabilities are kept exactly: energies are integers <= 0     *)
(* and expf(-E) is 2^(-E), so that products of factors are exact integers  *)
(* and expf(-(a+b)) = expf(-a)*expf(-b).  Belief vectors are symbolic      *)
(* terms <<tag, arg, ...>> that record which operation produced them from  *)
(* which operands: two beliefs are equal iff they were computed by the     *)
(* same operations from the same stored values.                            *)
(***************************************************************************)
EXTENDS Integers, Sequences, FiniteSets, TLC

VARIABLES
    st,         \* SpecStore: the SimdVecArrayStorage under test
    shadow,     \* SpecStore: last value written through operator()(comp, elem)
    loaded,     \* SpecStore: result of the last load_whole_vec
    nWrites,    \* SpecStore: number of scalar stores so far
    ehA,        \* SpecEdge: an EdgeHolder fed callsA in order
    ehB,        \* SpecEdge: an equal EdgeHolder fed callsB, a permutation of callsA
    callsA,     \* SpecEdge: the list of add_to_edge calls
    callsB,     \* SpecEdge: the same calls in another order
    kApplied,   \* SpecEdge: how many calls each holder has received since reset()
    nResets,    \* SpecEdge: explicit reset() calls so far
    ids,        \* igraph.id1: the packed id of every bead (fixed at construction)
    grp,        \* the configuration attributes max_iter, tol, iteration_chunk_size
    pc,         \* where the solver is: new, error, constructed, ub, filled, loop,
                \*   solved, propagated, done
    err,        \* the exception thrown by the constructor, or "none"
    rs,         \* the RotamerSidechain object, with the output arrays it writes
    inp,        \* the inputs of the evaluation in progress
    devTrace,   \* the max_deviation observed after each chunk of this evaluation
    nEval       \* evaluations started so far

storeVars == <<st, shadow, loaded, nWrites>>
edgeVars  == <<ehA, ehB, callsA, callsB, kApplied, nResets>>
solverVars == <<ids, grp, pc, err, rs, inp, devTrace, nEval>>
vars == <<storeVars, edgeVars, solverVars>>

(***************************************************************************)
(* Bounds of the storage harness.                                          *)
(***************************************************************************)
MaxWidth   == 2     \* elem_width ranges over 1..MaxWidth
MaxElemMin == 5     \* n_elem_min ranges over 0..MaxElemMin
MaxWrites  == 2     \* scalar stores per run
MaxVal     == 2     \* stored values range over 1..MaxVal

(***************************************************************************)
(* SimdVecArrayStorage  (rotamer.cpp 94-112)                               *)
(***************************************************************************)
simd_width == 4

\* round_up(n, m): n rounded up to a multiple of m (declared outside src/)
round_up(n, m) == ((n + m - 1) \div m) * m

\* the constructor: n_elem is padded, x holds n_elem*elem_width floats
SimdVecArrayStorage(elem_width_, n_elem_min_, init) ==
    LET n == round_up(n_elem_min_, simd_width)
    IN  [elem_width |-> elem_width_,
         n_elem     |-> n,
         x          |-> [i \in 0..(n * elem_width_ - 1) |-> init]]

\* a mis-indexed variant: the component stride is 1 instead of simd_width
OffsetUnitStride(a, i_comp, i_elem) ==
    (i_elem - (i_elem % simd_width)) * a.elem_width
        + i_comp + (i_elem % simd_width)

\* operator()(i_comp, i_elem): the index into x
Offset(a, i_comp, i_elem) ==
    (i_elem - (i_elem % simd_width)) * a.elem_width
        + i_comp * simd_width + (i_elem % simd_width)

\* reading a(i_comp, i_elem)
At(a, i_comp, i_elem) == a.x[Offset(a, i_comp, i_elem)]

\* writing a(i_comp, i_elem) = v
Put(a, i_comp, i_elem, v) ==
    [a EXCEPT !.x = [@ EXCEPT ![Offset(a, i_comp, i_elem)] = v]]

\* fill(v, fill_value)
fill(a, fill_value) == [a EXCEPT !.x = [i \in DOMAIN @ |-> fill_value]]

\* load_whole_vec<D>(a, idx): every r[d] is Float4(a.x + idx*D), the four
\* floats at x[idx*D .. idx*D+3]; the address does not depend on d
load_whole_vec(D, a, idx) ==
    [d \in 0..(D - 1) |-> [l \in 0..(simd_width - 1) |-> a.x[idx * D + l]]]

Comps(a) == 0..(a.elem_width - 1)
Elems(a) == 0..(a.n_elem - 1)

StoreIdle ==
    /\ st = [elem_width |-> 0, n_elem |-> 0, x |-> <<>>]
    /\ shadow = <<>>
    /\ loaded = [idx |-> -1, r |-> <<>>]
    /\ nWrites = 0

InitStore ==
    /\ \E w \in 1..MaxWidth, m \in 0..MaxElemMin :
          st = fill(SimdVecArrayStorage(w, m, 0), 0)
    /\ shadow = [p \in Comps(st) \X Elems(st) |-> 0]
    /\ loaded = [idx |-> -1, r |-> <<>>]
    /\ nWrites = 0

\* a(i_comp, i_elem) = v for one component of one element
StoreScalar ==
    /\ nWrites < MaxWrites
    /\ \E c \in Comps(st), e \in Elems(st), v \in 1..MaxVal :
          /\ st' = Put(st, c, e, v)
          /\ shadow' = [shadow EXCEPT ![<<c, e>>] = v]
    /\ nWrites' = nWrites + 1
    /\ loaded' = [idx |-> -1, r |-> <<>>]
    /\ UNCHANGED <<edgeVars, solverVars>>

\* r = load_whole_vec<elem_width>(a, idx) at a lane-aligned idx
LoadWholeVec ==
    /\ \E e \in Elems(st) :
          /\ (e % simd_width) = 0
          /\ loaded' = [idx |-> e, r |-> load_whole_vec(st.elem_width, st, e)]
    /\ UNCHANGED <<st, shadow, nWrites>>
    /\ UNCHANGED <<edgeVars, solverVars>>

NextStore == StoreScalar \/ LoadWholeVec

\* C9: every (comp, elem) of the padded store maps to an offset inside x,
\* distinct (comp, elem) pairs map to distinct offsets, and consequently
\* every cell still reads the value last written to it: a store to one
\* (comp, elem) changes no other cell.
C9_OffsetInRangeAndInjective ==
    LET cells == Comps(st) \X Elems(st)
    IN  /\ \A p \in cells :
              Offset(st, p[1], p[2]) \in 0..(st.elem_width * st.n_elem - 1)
        /\ \A p \in cells, q \in cells :
              Offset(st, p[1], p[2]) = Offset(st, q[1], q[2]) => p = q
        /\ \A p \in cells : At(st, p[1], p[2]) = shadow[p]

\* witness for C9: a store of width 2 in which two different components of
\* the same element, and two elements of the same quad, hold different values
C9_Witness ==
    /\ st.elem_width = 2
    /\ nWrites = MaxWrites
    /\ \E e \in Elems(st) : At(st, 0, e) # At(st, 1, e)
    /\ \E e \in Elems(st) : (e % simd_width) # 3 /\ At(st, 1, e) # At(st, 1, e + 1)

\* C8: after a whole-vector load at a lane-aligned element index, component
\* d, lane l of the result equals the scalar access a(d, idx + l).
C8_WholeVecMatchesScalar ==
    loaded.idx >= 0 =>
        \A d \in Comps(st), l \in 0..(simd_width - 1) :
            loaded.r[d][l] = At(st, d, loaded.idx + l)

(***************************************************************************)
(* EdgeHolder  (rotamer.cpp 146-331)                                       *)
(***************************************************************************)
MaxCalls  == 3      \* add_to_edge calls per list
MaxResets == 1      \* explicit reset() calls per run

Ones(n) == [i \in 1..n |-> 1]

\* the constructor.  prob and marginal are allocated but not filled: their
\* content is whatever the allocation held (garbage); the beliefs are filled
\* with 1, the index arrays with 0, and reset() is called.
EdgeHolder(n_rot1_, n_rot2_, max_n_edge, garbage) ==
    LET cap   == round_up(max_n_edge, simd_width)
        slots == 0..(cap - 1)
    IN  [n_rot1        |-> n_rot1_,
         n_rot2        |-> n_rot2_,
         n_edge        |-> 0,
         nodes_to_edge |-> <<>>,
         edge_loc      |-> <<>>,
         prob          |-> [e \in slots |-> [i \in 1..(n_rot1_ * n_rot2_) |-> garbage]],
         cur_belief    |-> [e \in slots |-> <<"v", Ones(n_rot1_ + n_rot2_)>>],
         old_belief    |-> [e \in slots |-> <<"v", Ones(n_rot1_ + n_rot2_)>>],
         marginal      |-> [e \in slots |-> <<"v", [i \in 1..(n_rot1_ * n_rot2_) |-> garbage]>>],
         edge_indices1 |-> [e \in slots |-> 0],
         edge_indices2 |-> [e \in slots |-> 0]]

\* EdgeHolder::reset(): prob and the index arrays are left as they are
EdgeReset(h) ==
    [h EXCEPT !.n_edge = 0, !.nodes_to_edge = <<>>, !.edge_loc = <<>>]

\* a key that drops the shift: id1 and id2 are simply added
EdgeKeyNoShift(id1, id2) == <<0, (id1 + id2) % 65536>>

\* unsigned pr = (id1<<16) + id2, kept as its two 16-bit halves <<high, low>>
\* (32-bit unsigned arithmetic: the high half of id1 is shifted out, the
\* high half of id2 is added into the high half of the key)
EdgeKey(id1, id2) ==
    <<((id1 % 65536) + (id2 \div 65536)) % 65536, id2 % 65536>>

\* a variant of add_to_edge that stores prob_val instead of multiplying by it
add_to_edge_assign(h, ne, prob_val, id1, rot1, id2, rot2) ==
    LET pr    == EdgeKey(id1, id2)
        fresh == pr \notin DOMAIN h.nodes_to_edge
        idx   == IF fresh THEN h.n_edge ELSE h.nodes_to_edge[pr]
        j     == rot1 * h.n_rot2 + rot2
        h1    == IF fresh
                 THEN [h EXCEPT !.nodes_to_edge = (pr :> h.n_edge) @@ @,
                                !.edge_indices1[idx] = id1,
                                !.edge_indices2[idx] = id2,
                                !.n_edge = @ + 1,
                                !.prob[idx] = Ones(h.n_rot1 * h.n_rot2)]
                 ELSE h
    IN  [h1 EXCEPT !.prob[idx][j + 1] = prob_val,
                   !.edge_loc = Append(@, [edge_num |-> ne, dim |-> j, ne |-> idx])]

\* EdgeHolder::add_to_edge(ne, prob_val, id1, rot1, id2, rot2)
add_to_edge(h, ne, prob_val, id1, rot1, id2, rot2) ==
    LET pr    == EdgeKey(id1, id2)
        fresh == pr \notin DOMAIN h.nodes_to_edge
        idx   == IF fresh THEN h.n_edge ELSE h.nodes_to_edge[pr]
        j     == rot1 * h.n_rot2 + rot2
        h1    == IF fresh
                 THEN [h EXCEPT !.nodes_to_edge = (pr :> h.n_edge) @@ @,
                                !.edge_indices1[idx] = id1,
                                !.edge_indices2[idx] = id2,
                                !.n_edge = @ + 1,
                                !.prob[idx] = Ones(h.n_rot1 * h.n_rot2)]
                 ELSE h
    IN  [h1 EXCEPT !.prob[idx][j + 1] = @ * prob_val,
                   !.edge_loc = Append(@, [edge_num |-> ne, dim |-> j, ne |-> idx])]

(***************************************************************************)
(* SpecEdge: one holder shape, one list of calls, applied to ehA in list   *)
(* order and to ehB in a permuted order.                                   *)
(***************************************************************************)
HolderShapes == {<<1, 1>>, <<1, 3>>, <<3, 3>>}
GarbageVals  == {0, 5}

\* calls between residues 0 and 1 of the two node holders: the same pair
\* twice with the same rotamers, with other rotamers, the pair reversed,
\* and a second pair; and a call whose id1 = 2^16 needs a 17th bit
CallPool(n1, n2) ==
    { [id1 |-> 0, rot1 |-> 0,      id2 |-> 1, rot2 |-> 0,      prob_val |-> 2],
      [id1 |-> 0, rot1 |-> 0,      id2 |-> 1, rot2 |-> 0,      prob_val |-> 3],
      [id1 |-> 0, rot1 |-> n1 - 1, id2 |-> 1, rot2 |-> n2 - 1, prob_val |-> 2],
      [id1 |-> 1, rot1 |-> 0,      id2 |-> 0, rot2 |-> n2 - 1, prob_val |-> 3],
      [id1 |-> 1, rot1 |-> n1 - 1, id2 |-> 1, rot2 |-> 0,      prob_val |-> 2],
      [id1 |-> 65536, rot1 |-> 0,  id2 |-> 1, rot2 |-> 0,      prob_val |-> 3] }

SeqsUpTo(S, n) == UNION {[1..m -> S] : m \in 0..n}

Orderings(n) == {f \in [1..n -> 1..n] : \A i, j \in 1..n : f[i] = f[j] => i = j}

EdgeIdle ==
    /\ ehA = <<>>
    /\ ehB = <<>>
    /\ callsA = <<>>
    /\ callsB = <<>>
    /\ kApplied = 0
    /\ nResets = 0

InitEdge ==
    /\ \E sh \in HolderShapes, g \in GarbageVals :
          /\ ehA = EdgeHolder(sh[1], sh[2], 4, g)
          /\ ehB = ehA
          /\ callsA \in SeqsUpTo(CallPool(sh[1], sh[2]), MaxCalls)
    /\ \E f \in Orderings(Len(callsA)) :
          callsB = [i \in 1..Len(callsA) |-> callsA[f[i]]]
    /\ kApplied = 0
    /\ nResets = 0

ApplyCall(h, ne, c) == add_to_edge(h, ne, c.prob_val, c.id1, c.rot1, c.id2, c.rot2)

\* the next call of each list reaches its holder
AddToEdge ==
    /\ kApplied < Len(callsA)
    /\ ehA' = ApplyCall(ehA, kApplied, callsA[kApplied + 1])
    /\ ehB' = ApplyCall(ehB, kApplied, callsB[kApplied + 1])
    /\ kApplied' = kApplied + 1
    /\ UNCHANGED <<callsA, callsB, nResets>>
    /\ UNCHANGED <<storeVars, solverVars>>

\* reset() on both holders; the lists are then applied again, exchanged
ResetHolders ==
    /\ kApplied = Len(callsA)
    /\ nResets < MaxResets
    /\ ehA' = EdgeReset(ehA)
    /\ ehB' = EdgeReset(ehB)
    /\ callsA' = callsB
    /\ callsB' = callsA
    /\ kApplied' = 0
    /\ nResets' = nResets + 1
    /\ UNCHANGED <<storeVars, solverVars>>

NextEdge == AddToEdge \/ ResetHolders

PairOf(c) == <<c.id1, c.id2>>
FlatOf(h, c) == c.rot1 * h.n_rot2 + c.rot2

RECURSIVE ProductOf(_, _, _, _, _)
\* product of prob_val over the calls among s[1..k] with this pair and flat index
ProductOf(h, s, k, pair, j) ==
    IF k = 0 THEN 1
    ELSE (IF PairOf(s[k]) = pair /\ FlatOf(h, s[k]) = j THEN s[k].prob_val ELSE 1)
            * ProductOf(h, s, k - 1, pair, j)
PairsSeen(s, k) == {PairOf(s[i]) : i \in 1..k}

\* what C2 says of holder h after the calls s[1..k]
DedupAccumulates(h, s, k) ==
    /\ h.n_edge = Cardinality(PairsSeen(s, k))
    /\ Len(h.edge_loc) = k
    /\ \A i \in 1..k : h.edge_loc[i].ne \in 0..(h.n_edge - 1)
    /\ \A i, i2 \in 1..k :
          (PairOf(s[i]) = PairOf(s[i2])) <=> (h.edge_loc[i].ne = h.edge_loc[i2].ne)
    /\ \A i \in 1..k :
          LET idx == h.edge_loc[i].ne
          IN  /\ h.edge_indices1[idx] = s[i].id1
              /\ h.edge_indices2[idx] = s[i].id2
              /\ \A j \in 0..(h.n_rot1 * h.n_rot2 - 1) :
                    h.prob[idx][j + 1] =
                        ProductOf(h, s, k, PairOf(s[i]), j)

\* C2: after reset() and any sequence of add_to_edge calls, n_edge is the
\* number of distinct (id1, id2) pairs seen, calls with the same pair share
\* one edge index, prob[j, idx] is the product of the prob_value arguments
\* of the calls with that pair and flat index j (1 if none), and
\* edge_indices1/2[idx] are the pair's ids.
C2_AddToEdgeDedupProduct ==
    /\ DedupAccumulates(ehA, callsA, kApplied)
    /\ DedupAccumulates(ehB, callsB, kApplied)

\* witness for C2: a 3x3 holder, after a reset() that left stale tables
\* behind, holds two edges, one of which accumulated two factors in one
\* entry while another of its entries is still 1
C2_Witness ==
    /\ nResets = 1
    /\ kApplied = 3
    /\ ehA.n_rot1 = 3
    /\ ehA.n_edge = 2
    /\ \E e \in 0..1 : ehA.prob[e][1] = 6 /\ ehA.prob[e][9] = 1

\* the dedup key of the pair recorded for slot e, and the slots with a key
KeyOfSlot(h, e) == EdgeKey(h.edge_indices1[e], h.edge_indices2[e])
EdgeOfKey(h, key) == {e \in 0..(h.n_edge - 1) : KeyOfSlot(h, e) = key}

\* C3 as stated: two orderings of the same calls give the same prob[*, e]
\* at every edge index e.
C3_SameTablePerEdgeIndex ==
    kApplied = Len(callsA) =>
        /\ ehA.n_edge = ehB.n_edge
        /\ \A e \in 0..(ehA.n_edge - 1) : ehA.prob[e] = ehB.prob[e]

\* C3 amended: two orderings of the same calls give the same number of
\* edges and, for every dedup key (id1<<16)+id2 (one key per residue pair
\* when the ids are below 2^16), the same table prob[*, e] at the edge index
\* each ordering assigned to that key (the index itself depends on the order
\* in which the keys first appear).
C3_SameTablePerDedupKey ==
    kApplied = Len(callsA) =>
        /\ ehA.n_edge = ehB.n_edge
        /\ \A e \in 0..(ehA.n_edge - 1) :
              /\ Cardinality(EdgeOfKey(ehB, KeyOfSlot(ehA, e))) = 1
              /\ \A e2 \in EdgeOfKey(ehB, KeyOfSlot(ehA, e)) : ehA.prob[e] = ehB.prob[e2]

\* witness for C3: the two orderings differ, both are fully applied, and the
\* same pair received different factors in a different order
C3_Witness ==
    /\ kApplied = Len(callsA)
    /\ kApplied = 3
    /\ callsA # callsB
    /\ ehA.n_edge = 2
    /\ ehA.edge_indices1[0] # ehB.edge_indices1[0]
    /\ \E e \in 0..1 : ehA.prob[e][1] = 6

\* C13: the 32-bit key (id1<<16)+id2 is injective over the residue-index
\* pairs a packed id can carry: calls with different (id1, id2) pairs never
\* obtain the same key and are never fused into one edge slot.
C13_DedupKeyInjective ==
    \A i, i2 \in 1..kApplied :
        PairOf(callsA[i]) # PairOf(callsA[i2]) =>
            /\ EdgeKey(callsA[i].id1, callsA[i].id2) # EdgeKey(callsA[i2].id1, callsA[i2].id2)
            /\ ehA.edge_loc[i].ne # ehA.edge_loc[i2].ne

(***************************************************************************)
(* Packed bead ids                                                         *)
(***************************************************************************)
UPPER_ROT == 4

\* bits per field of a packed id (a constant of the interaction graph)
n_bit_rotamer == 4

selector == 2^n_bit_rotamer - 1

\* the id the interaction graph reports for (residue_index, n_rot, rot)
PackId(res, n_rot, rot) ==
    (res * 2^n_bit_rotamer + n_rot) * 2^n_bit_rotamer + rot

\* rot = id & selector; id >>= n_bit_rotamer; n_rot = id & selector; id >>= ...
RotOf(id)  == id % (selector + 1)
NRotOf(id) == (id \div 2^n_bit_rotamer) % (selector + 1)
ResOf(id)  == (id \div 2^n_bit_rotamer) \div 2^n_bit_rotamer

\* id & (selector << n_bit_rotamer)
NRotField(id) == NRotOf(id) * 2^n_bit_rotamer

\* expf(-E) for an integer energy E <= 0, in base 2
ExpNeg(E) == 2^(0 - E)

(***************************************************************************)
(* calculate_n_elem  (rotamer.cpp 334-353)                                 *)
(***************************************************************************)
\* the first loop throws at the first bead with rot >= n_rot; the second
\* throws for a rotamer count >= UPPER_ROT; otherwise result[k] is the number
\* of distinct residue indices with n_rot = k
calculate_n_elem(ids_) ==
    LET beads == 1..Len(ids_)
    IN  IF \E n \in beads : RotOf(ids_[n]) >= NRotOf(ids_[n])
        THEN [err |-> "invalid rotamer number", result |-> <<>>]
        ELSE IF \E n \in beads : NRotOf(ids_[n]) >= UPPER_ROT
        THEN [err |-> "invalid rotamer count", result |-> <<>>]
        ELSE [err |-> "none",
              result |-> [k \in 0..(UPPER_ROT - 1) |->
                  Cardinality({ResOf(ids_[n]) : n \in {m \in beads : NRotOf(ids_[m]) = k}})]]

(***************************************************************************)
(* Belief vectors as terms                                                 *)
(***************************************************************************)
\* a vector of exactly known floats
Lit(p) == <<"v", p>>

\* component d of vector b (the scalar read b(d, elem))
Comp(b, d) == IF b[1] = "v" THEN <<"f", b[2][d + 1]>> ELSE <<"at", d, b>>

\* extract<lo,hi>(b); an edge belief is the concatenation of its two halves
Extract(b, lo, hi) ==
    IF b[1] = "v" THEN <<"v", SubSeq(b[2], lo + 1, hi)>>
    ELSE IF b[1] = "cat" THEN (IF lo = 0 THEN b[2] ELSE b[3])
    ELSE <<"extract", lo, hi, b>>

(***************************************************************************)
(* NodeHolder  (rotamer.cpp 20-91)                                         *)
(***************************************************************************)
NodeHolder(n_rot_, n_elem_) ==
    [n_rot      |-> n_rot_,
     n_elem     |-> n_elem_,
     prob       |-> [i \in 0..(n_elem_ - 1) |-> Ones(n_rot_)],
     cur_belief |-> [i \in 0..(n_elem_ - 1) |-> Lit(Ones(n_rot_))],
     old_belief |-> [i \in 0..(n_elem_ - 1) |-> Lit(Ones(n_rot_))]]

\* NodeHolder::reset(): fill(prob, 1.f)
NodeReset(h) == [h EXCEPT !.prob = [i \in DOMAIN @ |-> Ones(h.n_rot)]]

\* NodeHolder::swap_beliefs() and EdgeHolder::swap_beliefs()
swap_beliefs(h) == [h EXCEPT !.cur_belief = h.old_belief, !.old_belief = h.cur_belief]

\* NodeHolder::finish_belief_update<N_ROT>(damping)
finish_belief_update(h, damping) ==
    [h EXCEPT !.cur_belief =
        [i \in DOMAIN @ |-> <<"finish", damping, h.cur_belief[i], h.old_belief[i]>>]]

\* NodeHolder::calculate_marginals<N_ROT>(): b * rcp(sum(b)) in place
node_calculate_marginals(h) ==
    [h EXCEPT !.cur_belief = [i \in DOMAIN @ |-> <<"l1", h.cur_belief[i]>>]]

\* NodeHolder::node_free_energy<N_ROT>(nn)
node_free_energy(h, nn) == <<"node_free_energy", <<"l1", h.cur_belief[nn]>>, h.prob[nn]>>

(***************************************************************************)
(* EdgeHolder, continued                                                   *)
(***************************************************************************)
RECURSIVE MoveFrom(_, _, _)
MoveFrom(h, p, ne) ==
    IF ne >= h.n_edge THEN p
    ELSE LET nr == h.edge_indices2[ne]
         IN  MoveFrom(h, [p EXCEPT ![nr] =
                             [no \in 1..h.n_rot2 |-> @[no] * h.prob[ne][no]]], ne + 1)

\* a variant that folds every edge into the node twice
move_edge_prob_twice(h, nodes2) ==
    [nodes2 EXCEPT !.prob = MoveFrom(h, MoveFrom(h, @, 0), 0)]

\* EdgeHolder::move_edge_prob_to_node2(): returns nodes2 with, for each edge
\* ne in order, prob(no, edge_indices2[ne]) *= prob(no, ne)
move_edge_prob_to_node2(h, nodes2) ==
    [nodes2 EXCEPT !.prob = MoveFrom(h, @, 0)]

\* one iteration of the loop of update_beliefs<N_ROT1,N_ROT2>, for an edge
\* holder whose nodes1 and nodes2 are the same NodeHolder (edges33)
UpdateEdge(hn, damping, ne) ==
    LET h    == hn.h
        nd   == hn.nodes
        n1   == h.edge_indices1[ne]
        n2   == h.edge_indices2[ne]
        on1  == nd.old_belief[n1]
        on2  == nd.old_belief[n2]
        ep   == h.prob[ne]
        b    == h.old_belief[ne]
        oe1  == Extract(b, 0, h.n_rot1)
        oe2  == Extract(b, h.n_rot1, h.n_rot1 + h.n_rot2)
        ceb1 == <<"rescale", <<"left_multiply_matrix", ep, <<"div", on2, oe2>>>>>>
        ceb2 == <<"rescale", <<"right_multiply_matrix", <<"div", on1, oe1>>, ep>>>>
        \* neb starts as damping*old_belief, then every component is overwritten
        neb  == <<"cat", <<"scale", damping, ceb1>>, <<"scale", damping, ceb2>>>>
        cur1 == [nd.cur_belief EXCEPT ![n1] = <<"approx_normalized", <<"mul", ceb1, @>>>>]
        cur2 == [cur1 EXCEPT ![n2] = <<"approx_normalized", <<"mul", ceb2, @>>>>]
    IN  [h     |-> [h EXCEPT !.cur_belief[ne] = neb],
         nodes |-> [nd EXCEPT !.cur_belief = cur2]]

RECURSIVE UpdateFrom(_, _, _)
UpdateFrom(hn, damping, ne) ==
    IF ne >= hn.h.n_edge THEN hn
    ELSE UpdateFrom(UpdateEdge(hn, damping, ne), damping, ne + 1)

\* EdgeHolder::update_beliefs<N_ROT1,N_ROT2>(damping)
update_beliefs(h, nodes, damping) == UpdateFrom([h |-> h, nodes |-> nodes], damping, 0)

\* EdgeHolder::calculate_marginals<N_ROT1,N_ROT2>() for edges33
edge_calculate_marginals(h, nodes) ==
    [h EXCEPT !.marginal =
        [ne \in DOMAIN @ |->
            IF ne >= h.n_edge THEN @[ne]
            ELSE LET b1 == nodes.cur_belief[h.edge_indices1[ne]]
                     b2 == nodes.cur_belief[h.edge_indices2[ne]]
                     b  == h.cur_belief[ne]
                     bc1 == <<"div_eps", b1, Extract(b, 0, h.n_rot1)>>
                     bc2 == <<"div_eps", b2, Extract(b, h.n_rot1, h.n_rot1 + h.n_rot2)>>
                 IN  <<"l1", <<"outer", h.prob[ne], bc1, bc2>>>>]]

\* EdgeHolder::edge_free_energy<N_ROT1,N_ROT2>(ne)
edge_free_energy(h, nodes, ne) ==
    <<"edge_free_energy", nodes.cur_belief[h.edge_indices1[ne]],
      nodes.cur_belief[h.edge_indices2[ne]], h.marginal[ne], h.prob[ne]>>

(***************************************************************************)
(* RotamerSidechain  (rotamer.cpp 356-668)                                 *)
(***************************************************************************)
MaxEval == 2        \* evaluations (compute_value calls) per run
MaxDev  == 2        \* max_deviation after a chunk ranges over 0..MaxDev

\* max_deviation starts at 1e10f; deviations and tol are measured on an
\* integer scale on which 1e10f is InitDev
InitDev == 10

\* prob_nodes.size(): two single-body probability providers
n_prob_nodes == 2

\* node_holders_matrix[n_rot] and edge_holders_matrix[n_rot1][n_rot2]
node_holders_matrix(n_rot) ==
    CASE n_rot = 1 -> "nodes1" [] n_rot = 3 -> "nodes3" [] OTHER -> "nullptr"

edge_holders_matrix(n_rot1, n_rot2) ==
    CASE n_rot1 = 1 /\ n_rot2 = 1 -> "edges11"
      [] n_rot1 = 1 /\ n_rot2 = 3 -> "edges13"
      [] n_rot1 = 3 /\ n_rot2 = 3 -> "edges33"
      [] OTHER -> "nullptr"

\* length of the longest edge list the interaction graph reports
MaxSrcEdges == 20
SrcEdges == 0..(MaxSrcEdges - 1)

\* the constructor, for ids that calculate_n_elem accepts
RotamerSidechain(ids_, grp_, garbage) ==
    LET n  == calculate_n_elem(ids_).result
        n1 == NodeHolder(1, n[1])
        n3 == NodeHolder(3, n[3])
    IN  [n_elem_rot |-> n,
         nodes1  |-> n1,
         nodes3  |-> n3,
         edges11 |-> EdgeHolder(1, 1, (n[1] * (n[1] + 1)) \div 2, garbage),
         edges13 |-> EdgeHolder(1, 3, n[1] * n[3], garbage),
         edges33 |-> EdgeHolder(3, 3, (n[3] * (n[3] + 1)) \div 2, garbage),
         max_iter             |-> grp_.max_iter,
         tol                  |-> grp_.tol,
         iteration_chunk_size |-> grp_.iteration_chunk_size,
         energy_fresh_relative_to_derivative |-> FALSE,
         potential      |-> <<>>,
         max_deviation  |-> 0,
         iter           |-> 0,
         j              |-> 0,
         sweeps         |-> 0,      \* main-loop sweeps run by this solve (for the claims)
         \* the cur_belief buffers as the latest sweep of this solve left them,
         \* and as the sweep before it did (for the claims; the warm-up counts)
         lastOut        |-> <<>>,
         prevOut        |-> <<>>,
         solve_results  |-> <<0, 0>>,
         \* igraph.edge_sensitivity and the deriv arrays of the prob_nodes
         edge_sensitivity |-> [ne \in SrcEdges |-> <<"f", garbage>>],
         deriv            |-> [sl \in 0..(Len(ids_) * n_prob_nodes - 1) |-> <<"f", garbage>>],
         \* how often this evaluation wrote each edge_sensitivity entry
         sensWrites       |-> [ne \in SrcEdges |-> 0]]

\* a fill_holders prologue that forgets to reset the edge holders
ResetHoldersEdgesKept(r) ==
    [r EXCEPT !.nodes1  = NodeReset(@),
              !.nodes3  = NodeReset(@)]

\* fill_holders, lines 459-467: reset every edge holder and node holder
ResetAllHolders(r) ==
    [r EXCEPT !.edges11 = EdgeReset(@),
              !.edges13 = EdgeReset(@),
              !.edges33 = EdgeReset(@),
              !.nodes1  = NodeReset(@),
              !.nodes3  = NodeReset(@)]

RECURSIVE SumEnergy(_, _, _)
\* energy += a(0, index) over the prob_nodes
SumEnergy(energy_1body, index, k) ==
    IF k = 0 THEN 0 ELSE energy_1body[k][index] + SumEnergy(energy_1body, index, k - 1)

RECURSIVE FillBeads(_, _, _, _)
\* fill_holders, lines 474-485, from bead n on (beads are numbered from 1;
\* loc1[n].index is the bead's own number)
FillBeads(r, ids_, in, n) ==
    IF n > Len(ids_) THEN r
    ELSE LET id     == ids_[n]
             energy == SumEnergy(in.energy_1body, n, n_prob_nodes)
             nh     == node_holders_matrix(NRotOf(id))
         IN  FillBeads([r EXCEPT ![nh].prob[ResOf(id)][RotOf(id) + 1] = @ * ExpNeg(energy)],
                       ids_, in, n + 1)

\* a canonicalisation that exchanges rot and n_rot but leaves each
\* residue_index in place
EdgeEndsLowFieldsSwapped(id1, id2) ==
    IF NRotField(id1) > NRotField(id2)
    THEN <<PackId(ResOf(id1), NRotOf(id2), RotOf(id2)),
           PackId(ResOf(id2), NRotOf(id1), RotOf(id1))>>
    ELSE <<id1, id2>>

\* fill_holders, line 496: the endpoint with the larger n_rot field goes second
EdgeEnds(id1, id2) ==
    IF NRotField(id1) > NRotField(id2) THEN <<id2, id1>> ELSE <<id1, id2>>

RECURSIVE FillEdges(_, _, _, _)
\* fill_holders, lines 491-505, from source edge ne on
FillEdges(r, ids_, in, ne) ==
    IF ne >= Len(in.edges) THEN r
    ELSE LET e    == in.edges[ne + 1]
             ends == EdgeEnds(ids_[e.i1], ids_[e.i2])
             eh   == edge_holders_matrix(NRotOf(ends[1]), NRotOf(ends[2]))
         IN  FillEdges([r EXCEPT ![eh] = add_to_edge(@, ne, ExpNeg(e.value),
                                             ResOf(ends[1]), RotOf(ends[1]),
                                             ResOf(ends[2]), RotOf(ends[2]))],
                       ids_, in, ne + 1)

\* the slots allocated for a holder's per-edge arrays: round_up(max_n_edge, 4)
EdgeCapacity(h) == Cardinality(DOMAIN h.edge_indices1)

RECURSIVE FillOverruns(_, _, _, _)
\* the edge loop of fill_holders, from source edge ne on, reaches an
\* add_to_edge call that allocates slot idx = n_edge past the holder's arrays
\* (add_to_edge has no bound check, lines 201-209)
FillOverruns(r, ids_, in, ne) ==
    IF ne >= Len(in.edges) THEN FALSE
    ELSE LET e    == in.edges[ne + 1]
             ends == EdgeEnds(ids_[e.i1], ids_[e.i2])
             eh   == edge_holders_matrix(NRotOf(ends[1]), NRotOf(ends[2]))
             h    == r[eh]
             pr   == EdgeKey(ResOf(ends[1]), ResOf(ends[2]))
         IN  \/ pr \notin DOMAIN h.nodes_to_edge /\ h.n_edge >= EdgeCapacity(h)
             \/ FillOverruns([r EXCEPT ![eh] = add_to_edge(@, ne, ExpNeg(e.value),
                                                   ResOf(ends[1]), RotOf(ends[1]),
                                                   ResOf(ends[2]), RotOf(ends[2]))],
                             ids_, in, ne + 1)

\* fill_holders writes outside a holder's arrays on these inputs
FillWritesPastAllocation(r, ids_, in) ==
    FillOverruns(FillBeads(ResetAllHolders(r), ids_, in, 1), ids_, in, 0)

\* fill_holders dereferences node_holders_matrix[n_rot] without a null check
FillDerefsNull(ids_) ==
    \E n \in 1..Len(ids_) : node_holders_matrix(NRotOf(ids_[n])) = "nullptr"

\* RotamerSidechain::fill_holders()
fill_holders(r, ids_, in) ==
    LET r1 == FillBeads(ResetAllHolders(r), ids_, in, 1)
        r2 == FillEdges(r1, ids_, in, 0)
    IN  [r2 EXCEPT !.nodes3 = move_edge_prob_to_node2(r2.edges13, @)]

\* RotamerSidechain::calculate_new_beliefs(damping_for_this_iteration)
calculate_new_beliefs(r, damping) ==
    LET copied == [r.nodes3 EXCEPT !.cur_belief = [i \in DOMAIN @ |-> Lit(r.nodes3.prob[i])]]
        hn     == update_beliefs(r.edges33, copied, damping)
    IN  [r EXCEPT !.edges33 = hn.h,
                  !.nodes3  = finish_belief_update(hn.nodes, damping)]

\* a seeding loop that writes cur_belief instead of old_belief
SeedCurBelief(h) == [h EXCEPT !.cur_belief = [i \in DOMAIN @ |-> Lit(h.prob[i])]]

\* solve_for_marginals, lines 631-635: nh->old_belief(no,ne) = nh->prob(no,ne)
SeedOldBelief(h) == [h EXCEPT !.old_belief = [i \in DOMAIN @ |-> Lit(h.prob[i])]]

\* the cur_belief buffers of the two holders that take part in a sweep
CurBeliefs(r) == [nodes3 |-> r.nodes3.cur_belief, edges33 |-> r.edges33.cur_belief]

\* solve_for_marginals up to the main loop (lines 631-645)
solve_begin(r) ==
    LET r1 == [r EXCEPT !.nodes1 = SeedOldBelief(@),
                        !.nodes3 = SeedOldBelief(@),
                        !.edges33.old_belief = [e \in DOMAIN @ |-> Lit(Ones(6))]]
        r2 == calculate_new_beliefs(r1, "0.1f")
    IN  [r2 EXCEPT !.nodes3 = swap_beliefs(@),
                   !.max_deviation = InitDev,
                   !.iter = 0,
                   !.j = 0,
                   !.sweeps = 0,
                   !.lastOut = CurBeliefs(r2),
                   !.prevOut = <<>>]

\* a sweep that swaps the node beliefs only
solve_sweep_edges_unswapped(r) ==
    LET r1 == [r EXCEPT !.nodes3 = swap_beliefs(@)]
        r2 == calculate_new_beliefs(r1, "damping")
    IN  [r2 EXCEPT !.j = @ + 1, !.sweeps = @ + 1,
                   !.prevOut = r.lastOut, !.lastOut = CurBeliefs(r2)]

\* one pass of the inner loop (lines 649-651)
solve_sweep(r) ==
    LET r1 == [r EXCEPT !.nodes3 = swap_beliefs(@), !.edges33 = swap_beliefs(@)]
        r2 == calculate_new_beliefs(r1, "damping")
    IN  [r2 EXCEPT !.j = @ + 1, !.sweeps = @ + 1,
                   !.prevOut = r.lastOut, !.lastOut = CurBeliefs(r2)]

\* a loop condition that ignores the tolerance
LoopContinuesIgnoringTol(r) == r.iter < r.max_iter

\* the condition of the main loop: max_deviation>tol && iter<max_iter
LoopContinues(r) == r.max_deviation > r.tol /\ r.iter < r.max_iter

\* the end of a chunk (line 655 and the loop increment), the deviation of the
\* beliefs being dev
solve_chunk_end(r, dev) ==
    [r EXCEPT !.max_deviation = dev,
              !.iter = @ + r.iteration_chunk_size,
              !.j = 0]

\* solve_for_marginals after the main loop (lines 658-660)
solve_end(r) ==
    LET n3 == node_calculate_marginals(r.nodes3)
    IN  [r EXCEPT !.nodes3  = n3,
                  !.edges33 = edge_calculate_marginals(@, n3),
                  !.solve_results = <<r.iter, r.max_deviation>>]

\* igraph.edge_sensitivity[el.edge_num] = value, counted
WriteSens(r, edge_num, value) ==
    [r EXCEPT !.edge_sensitivity[edge_num] = value,
              !.sensWrites[edge_num] = @ + 1]

RECURSIVE Sens11(_, _)
Sens11(r, k) ==
    IF k > Len(r.edges11.edge_loc) THEN r
    ELSE Sens11(WriteSens(r, r.edges11.edge_loc[k].edge_num, <<"f", 1>>), k + 1)

RECURSIVE Sens13FirstEndpoint(_, _)
\* a variant that reads the belief of the edge's first endpoint
Sens13FirstEndpoint(r, k) ==
    IF k > Len(r.edges13.edge_loc) THEN r
    ELSE LET el == r.edges13.edge_loc[k]
         IN  Sens13FirstEndpoint(
                WriteSens(r, el.edge_num,
                    Comp(r.nodes3.cur_belief[r.edges13.edge_indices1[el.ne]], el.dim)),
                k + 1)

RECURSIVE Sens13(_, _)
Sens13(r, k) ==
    IF k > Len(r.edges13.edge_loc) THEN r
    ELSE LET el == r.edges13.edge_loc[k]
         IN  Sens13(WriteSens(r, el.edge_num,
                       Comp(r.nodes3.cur_belief[r.edges13.edge_indices2[el.ne]], el.dim)),
                    k + 1)

RECURSIVE Sens33(_, _)
Sens33(r, k) ==
    IF k > Len(r.edges33.edge_loc) THEN r
    ELSE LET el == r.edges33.edge_loc[k]
         IN  Sens33(WriteSens(r, el.edge_num, Comp(r.edges33.marginal[el.ne], el.dim)),
                    k + 1)

\* node_holders_matrix[n_rot]->cur_belief(rot,id)  (line 616)
BeadOccupation(r, id) ==
    Comp(r[node_holders_matrix(NRotOf(id))].cur_belief[ResOf(id)], RotOf(id))

\* RotamerSidechain::propagate_derivatives(); prob_slot[n*n_prob_nodes+i] is
\* slot n*n_prob_nodes+i
propagate_derivatives(r, ids_) ==
    LET r1 == Sens33(Sens13(Sens11(r, 1), 1), 1)
    IN  [r1 EXCEPT !.deriv =
            [sl \in DOMAIN @ |-> BeadOccupation(r1, ids_[(sl \div n_prob_nodes) + 1])]]

\* RotamerSidechain::calculate_energy_from_marginals(): the terms it adds up
EnergyTerms(r) ==
    [nn \in 1..r.nodes1.n_elem |->
        [kind |-> "nodes1", idx |-> nn - 1, val |-> node_free_energy(r.nodes1, nn - 1)]]
    \o [nn \in 1..r.nodes3.n_elem |->
        [kind |-> "nodes3", idx |-> nn - 1, val |-> node_free_energy(r.nodes3, nn - 1)]]
    \o [ne \in 1..r.edges11.n_edge |->
        [kind |-> "edges11", idx |-> ne - 1, val |-> <<"neg_log", r.edges11.prob[ne - 1][1]>>]]
    \o [ne \in 1..r.edges33.n_edge |->
        [kind |-> "edges33", idx |-> ne - 1,
         val |-> edge_free_energy(r.edges33, r.nodes3, ne - 1)]]

(***************************************************************************)
(* Inputs: bead sets, configuration, and what one evaluation is given      *)
(***************************************************************************)
\* two 1-rotamer residues and two 3-rotamer residues; beads 2 and 6 are two
\* beads of the same residue in the same rotamer
RichIds ==
    <<PackId(0, 1, 0), PackId(0, 3, 0), PackId(0, 3, 2),
      PackId(1, 3, 0), PackId(1, 1, 0), PackId(0, 3, 0)>>

\* two 3-rotamer residues with one bead each
PairIds == <<PackId(0, 3, 0), PackId(1, 3, 1)>>

\* beads whose n_rot field is not 1 or 3, and one with rot >= n_rot = 3
OddBeads ==
    {PackId(0, n, r) : n \in {0, 2, 5}, r \in {0, 1, 2}} \cup {PackId(0, 3, 3)}

\* n residues of one rotamer, one bead each
Singles(n) == [i \in 1..n |-> PackId(i - 1, 1, 0)]

BeadConfigs ==
    {RichIds, <<PackId(0, 3, 1)>>, Singles(4), Singles(5)}
        \cup {<<b>> : b \in OddBeads}
        \cup {<<PackId(0, 1, 0), b>> : b \in OddBeads}

Edge(i1_, i2_, value_) == [i1 |-> i1_, i2 |-> i2_, value |-> value_]

\* edge lists over the beads of RichIds: (1,1), (1,3) and (3,3) edges, with
\* endpoints in either order and several beads per residue pair
RichEdgeLists ==
    { <<>>,
      <<Edge(1, 5, -1), Edge(1, 2, -1), Edge(4, 1, -2),
        Edge(2, 4, -1), Edge(3, 4, 0), Edge(6, 4, -1)>>,
      <<Edge(4, 2, -1), Edge(2, 4, -2), Edge(5, 6, -1)>>,
      <<Edge(5, 1, -1), Edge(1, 5, -2), Edge(5, 3, -1)>> }

\* one edge for every ordered pair of different beads among n: each pair of
\* beads is reported twice, once in each endpoint order
OrderedPairEdges(n) ==
    [k \in 1..(n * (n - 1)) |->
        LET a == (k - 1) \div (n - 1)
            b == (k - 1) % (n - 1)
        IN  Edge(a + 1, IF b >= a THEN b + 2 ELSE b + 1, -1)]

\* one-body energies of the two prob_nodes, per bead
ZeroEnergy(n)  == <<[b \in 1..n |-> 0], [b \in 1..n |-> 0]>>
MixedEnergy(n) == <<[b \in 1..n |-> 0 - (b % 2)], [b \in 1..n |-> -1]>>

Scenarios(ids_) ==
    LET n == Len(ids_)
        lists == IF ids_ = RichIds THEN RichEdgeLists
                 ELSE IF ids_ = PairIds THEN {<<Edge(1, 2, -1)>>}
                 ELSE IF ids_ \in {Singles(4), Singles(5)} THEN {OrderedPairEdges(n)}
                 ELSE {<<>>}
    IN  {[energy_1body |-> en, edges |-> l, mode |-> "PotentialAndDerivMode"] :
            en \in {ZeroEnergy(n), MixedEnergy(n)}, l \in lists}
        \cup {[energy_1body |-> MixedEnergy(n), edges |-> l, mode |-> "DerivMode"] :
                l \in {l2 \in lists : Len(l2) = 3}}

DefaultGrp == [max_iter |-> 2, tol |-> 1, iteration_chunk_size |-> 1]

MaxIter  == 2       \* max_iter ranges over 1..MaxIter
MaxChunk == 2       \* iteration_chunk_size ranges over 1..MaxChunk

\* tol: below every positive deviation, between deviations, 1e10f and above
Tols == {1, MaxDev, InitDev, InitDev + 1}

SolveGrps ==
    [max_iter : 1..MaxIter, tol : Tols, iteration_chunk_size : 1..MaxChunk]

SolverIdle ==
    /\ ids = <<>>
    /\ grp = <<>>
    /\ pc = "off"
    /\ err = "none"
    /\ rs = <<>>
    /\ inp = <<>>
    /\ devTrace = <<>>
    /\ nEval = 0

InitSolver(configs, grps) ==
    /\ ids \in configs
    /\ grp \in grps
    /\ pc = "new"
    /\ err = "none"
    /\ rs = <<>>
    /\ inp = <<>>
    /\ devTrace = <<>>
    /\ nEval = 0

(***************************************************************************)
(* Actions of the solver                                                   *)
(***************************************************************************)
\* the constructor: calculate_n_elem throws, or the holders are built
Construct ==
    /\ pc = "new"
    /\ LET c == calculate_n_elem(ids)
       IN  IF c.err # "none"
           THEN /\ pc' = "error"
                /\ err' = c.err
                /\ rs' = rs
           ELSE /\ pc' = "constructed"
                /\ err' = err
                /\ \E g \in GarbageVals : rs' = RotamerSidechain(ids, grp, g)
    /\ UNCHANGED <<ids, grp, inp, devTrace, nEval>>
    /\ UNCHANGED <<storeVars, edgeVars>>

\* compute_value: the mode is recorded (and the write counters cleared)
BeginValue(r, in) ==
    [r EXCEPT !.energy_fresh_relative_to_derivative = (in.mode = "PotentialAndDerivMode"),
              !.sensWrites = [ne \in SrcEdges |-> 0]]

\* compute_value starts and runs fill_holders.  When a bead has no node
\* holder, fill_holders dereferences a null pointer, and when an edge holder
\* runs out of slots, add_to_edge writes past its arrays: the behaviour of
\* the program is undefined from there on, and the model stops in pc = "ub".
FillHolders ==
    /\ pc \in {"constructed", "done"}
    /\ nEval < MaxEval
    /\ \E in \in Scenarios(ids) :
          /\ inp' = in
          /\ IF FillDerefsNull(ids) \/ FillWritesPastAllocation(rs, ids, in)
             THEN /\ pc' = "ub"
                  /\ rs' = rs
             ELSE /\ pc' = "filled"
                  /\ rs' = fill_holders(BeginValue(rs, in), ids, in)
    /\ devTrace' = <<>>
    /\ nEval' = nEval + 1
    /\ UNCHANGED <<ids, grp, err>>
    /\ UNCHANGED <<storeVars, edgeVars>>

\* solve_for_marginals: seeding, the warm-up sweep, the node swap
SolveBegin ==
    /\ pc = "filled"
    /\ rs' = solve_begin(rs)
    /\ pc' = "loop"
    /\ UNCHANGED <<ids, grp, err, inp, devTrace, nEval>>
    /\ UNCHANGED <<storeVars, edgeVars>>

\* one sweep of the inner loop
Sweep ==
    /\ pc = "loop"
    /\ rs.j < rs.iteration_chunk_size
    /\ (rs.j > 0 \/ LoopContinues(rs))
    /\ rs' = solve_sweep(rs)
    /\ UNCHANGED <<ids, grp, pc, err, inp, devTrace, nEval>>
    /\ UNCHANGED <<storeVars, edgeVars>>

\* the end of a chunk: max_deviation is computed, whatever the beliefs give
ChunkEnd ==
    /\ pc = "loop"
    /\ rs.j = rs.iteration_chunk_size
    /\ \E dev \in 0..MaxDev :
          /\ rs' = solve_chunk_end(rs, dev)
          /\ devTrace' = Append(devTrace, dev)
    /\ UNCHANGED <<ids, grp, pc, err, inp, nEval>>
    /\ UNCHANGED <<storeVars, edgeVars>>

\* the main loop ends; marginals are computed and (iter, max_deviation) returned
SolveEnd ==
    /\ pc = "loop"
    /\ rs.j = 0
    /\ ~LoopContinues(rs)
    /\ rs' = solve_end(rs)
    /\ pc' = "solved"
    /\ UNCHANGED <<ids, grp, err, inp, devTrace, nEval>>
    /\ UNCHANGED <<storeVars, edgeVars>>

PropagateDerivatives ==
    /\ pc = "solved"
    /\ rs' = propagate_derivatives(rs, ids)
    /\ pc' = "propagated"
    /\ UNCHANGED <<ids, grp, err, inp, devTrace, nEval>>
    /\ UNCHANGED <<storeVars, edgeVars>>

\* compute_value, line 451
finish_value(r, in) ==
    IF in.mode = "PotentialAndDerivMode" THEN [r EXCEPT !.potential = EnergyTerms(r)] ELSE r

FinishValue ==
    /\ pc = "propagated"
    /\ rs' = finish_value(rs, inp)
    /\ pc' = "done"
    /\ UNCHANGED <<ids, grp, err, inp, devTrace, nEval>>
    /\ UNCHANGED <<storeVars, edgeVars>>

NextSolver ==
    \/ Construct
    \/ FillHolders
    \/ SolveBegin
    \/ Sweep
    \/ ChunkEnd
    \/ SolveEnd
    \/ PropagateDerivatives
    \/ FinishValue

(***************************************************************************)
(* One whole evaluation as a function of the solver it starts from         *)
(***************************************************************************)
RECURSIVE RunSweeps(_, _)
RunSweeps(r, n) == IF n = 0 THEN r ELSE RunSweeps(solve_sweep(r), n - 1)

RECURSIVE RunChunks(_, _, _)
\* the main loop, given the deviation found after each chunk
RunChunks(r, trace, k) ==
    IF k > Len(trace) THEN r
    ELSE RunChunks(solve_chunk_end(RunSweeps(r, r.iteration_chunk_size), trace[k]),
                   trace, k + 1)

Evaluate(r, ids_, in, trace) ==
    LET filled == fill_holders(BeginValue(r, in), ids_, in)
        solved == solve_end(RunChunks(solve_begin(filled), trace, 1))
    IN  finish_value(propagate_derivatives(solved, ids_), in)

\* what compute_value hands back
Outputs(r, in) ==
    [edge_sensitivity |-> [ne \in 0..(Len(in.edges) - 1) |-> r.edge_sensitivity[ne]],
     deriv            |-> r.deriv,
     node_marginal1   |-> r.nodes1.cur_belief,
     node_marginal3   |-> r.nodes3.cur_belief,
     edge_marginal    |-> [e \in 0..(r.edges33.n_edge - 1) |-> r.edges33.marginal[e]],
     solve_results    |-> r.solve_results,
     potential        |-> IF in.mode = "PotentialAndDerivMode" THEN r.potential ELSE <<>>]

(***************************************************************************)
(* Claims about the solver                                                 *)
(***************************************************************************)
Beads == 1..Len(ids)
HasUnsupportedNRot == \E n \in Beads : NRotOf(ids[n]) \notin {1, 3}

\* C1: when some bead's n_rot field is not 1 or 3, an error is raised by
\* calculate_n_elem or by fill_holders before a node holder is indexed with
\* that n_rot: the solver never gets past construction, and no evaluation
\* uses a null holder.
C1_UnsupportedNRotRaises ==
    HasUnsupportedNRot => pc \in {"new", "error", "constructed"}

SrcEdgeNums == 0..(Len(inp.edges) - 1)
LocsOf(h, ne) == {k \in 1..Len(h.edge_loc) : h.edge_loc[k].edge_num = ne}

\* the canonical endpoints of source edge ne
EndsOf(ne) == EdgeEnds(ids[inp.edges[ne + 1].i1], ids[inp.edges[ne + 1].i2])
FlatIndexOf(ne) == RotOf(EndsOf(ne)[1]) * NRotOf(EndsOf(ne)[2]) + RotOf(EndsOf(ne)[2])

RecordedFor(h, k, ne) ==
    /\ h.edge_loc[k].dim = FlatIndexOf(ne)
    /\ h.edge_indices1[h.edge_loc[k].ne] = ResOf(EndsOf(ne)[1])
    /\ h.edge_indices2[h.edge_loc[k].ne] = ResOf(EndsOf(ne)[2])
    /\ h.n_rot1 = NRotOf(EndsOf(ne)[1])
    /\ h.n_rot2 = NRotOf(EndsOf(ne)[2])

\* C4: after fill_holders and propagate_derivatives, every source edge has
\* exactly one edge_loc entry, in exactly one of edges11/edges13/edges33,
\* recording its flat index and the edge index of its residue pair, and its
\* edge_sensitivity was written exactly once: 1 for edges11,
\* nodes3.cur_belief[dim, edges13.edge_indices2[e]] for edges13,
\* edges33.marginal[dim, e] for edges33.
C4_EdgeSensitivityOncePerSourceEdge ==
    pc \in {"propagated", "done"} =>
        \A ne \in SrcEdgeNums :
            LET l11 == LocsOf(rs.edges11, ne)
                l13 == LocsOf(rs.edges13, ne)
                l33 == LocsOf(rs.edges33, ne)
                out == rs.edge_sensitivity[ne]
            IN  /\ Cardinality(l11) + Cardinality(l13) + Cardinality(l33) = 1
                /\ rs.sensWrites[ne] = 1
                /\ \A k \in l11 : /\ RecordedFor(rs.edges11, k, ne)
                                  /\ out = <<"f", 1>>
                /\ \A k \in l13 :
                      LET el == rs.edges13.edge_loc[k]
                      IN  /\ RecordedFor(rs.edges13, k, ne)
                          /\ out = Comp(rs.nodes3.cur_belief[rs.edges13.edge_indices2[el.ne]],
                                        el.dim)
                /\ \A k \in l33 :
                      LET el == rs.edges33.edge_loc[k]
                      IN  /\ RecordedFor(rs.edges33, k, ne)
                          /\ out = Comp(rs.edges33.marginal[el.ne], el.dim)

\* witness for C4: an evaluation of six source edges has propagated; all
\* three holders have entries, a (1,3) edge was reported with its 3-rotamer
\* bead first, and two source edges share one (3,3) edge
C4_Witness ==
    /\ pc = "propagated"
    /\ Len(inp.edges) = 6
    /\ rs.edges11.n_edge = 1
    /\ rs.edges13.n_edge = 2
    /\ Len(rs.edges33.edge_loc) = 3
    /\ rs.edges33.n_edge = 1
    /\ rs.edge_sensitivity[2] = Comp(rs.nodes3.cur_belief[1], 0)

Returned == pc \in {"solved", "propagated", "done"}

\* no chunk was started at a boundary where the loop condition had failed
NoChunkAfterStop ==
    /\ (Len(devTrace) >= 1 => InitDev > rs.tol)
    /\ \A k \in 1..(Len(devTrace) - 1) :
          devTrace[k] > rs.tol /\ k * rs.iteration_chunk_size < rs.max_iter

SolveResultCommon ==
    LET it  == rs.solve_results[1]
        dev == rs.solve_results[2]
    IN  /\ it = rs.sweeps
        /\ it = Len(devTrace) * rs.iteration_chunk_size
        /\ it < rs.max_iter + rs.iteration_chunk_size
        /\ (dev <= rs.tol \/ it >= rs.max_iter)
        /\ (dev > rs.tol => it >= rs.max_iter)
        /\ NoChunkAfterStop

\* C5 as stated (its safety part): on return, iter is the number of main-loop
\* sweeps, a positive multiple of iteration_chunk_size below
\* max_iter + iteration_chunk_size; max_deviation <= tol or iter >= max_iter;
\* no chunk ran after either held; non-convergence implies iter >= max_iter.
C5_ReturnsPositiveMultiple ==
    Returned => (SolveResultCommon /\ rs.solve_results[1] > 0)

\* C5 amended: solve_for_marginals always returns; the returned iter is the
\* number of main-loop sweeps, a multiple of iteration_chunk_size below
\* max_iter + iteration_chunk_size, positive when tol < 1e10 and 0 when
\* tol >= 1e10 (the loop is never entered, max_deviation being 1e10 at its
\* start); on return max_deviation <= tol or iter >= max_iter; no chunk
\* runs once either holds; non-convergence implies iter >= max_iter.
C5_ReturnsMultipleOfChunk ==
    /\ [](Returned =>
            /\ SolveResultCommon
            /\ (rs.tol < InitDev => rs.solve_results[1] > 0)
            /\ (rs.tol >= InitDev => rs.solve_results[1] = 0))
    /\ ((pc = "filled") ~> (pc = "solved"))

\* witness for C5: a solve returned without converging, two chunks of two
\* sweeps after the cap max_iter = 2 was only reached by the second
C5_Witness ==
    /\ pc = "solved"
    /\ rs.max_iter = 2
    /\ rs.iteration_chunk_size = 2
    /\ rs.solve_results[2] > rs.tol
    /\ rs.solve_results[1] = 2
    /\ rs.sweeps = 2

\* C6: the outputs of an evaluation (edge sensitivities, deriv slots, node
\* and edge marginals, iter, potential) are those the same inputs give on a
\* freshly constructed solver, whatever evaluations came before and whatever
\* the unfilled buffers held at construction.
C6_OutputsDependOnInputsOnly ==
    pc = "done" =>
        \A g \in GarbageVals :
            Outputs(rs, inp)
                = Outputs(Evaluate(RotamerSidechain(ids, grp, g), ids, inp, devTrace), inp)

\* witness for C6: a second evaluation is done whose one (3,3) edge sits
\* beside a slot still holding the table of the previous evaluation
C6_Witness ==
    /\ pc = "done"
    /\ nEval = 2
    /\ rs.edges33.n_edge = 1
    /\ rs.edges33.prob[1][1] = 4
    /\ rs.edges13.n_edge = 2
    /\ Len(devTrace) = 2

RECURSIVE OneBodyProduct(_, _)
\* product of expf(-energy) over the beads 1..n whose id is this one
OneBodyProduct(id, n) ==
    IF n = 0 THEN 1
    ELSE (IF ids[n] = id THEN ExpNeg(SumEnergy(inp.energy_1body, n, n_prob_nodes)) ELSE 1)
            * OneBodyProduct(id, n - 1)

RECURSIVE Edges13Product(_, _, _)
\* product of edges13.prob[r, e] over the edges e < n with edge_indices2[e] = i
Edges13Product(i, r, n) ==
    IF n = 0 THEN 1
    ELSE (IF rs.edges13.edge_indices2[n - 1] = i THEN rs.edges13.prob[n - 1][r + 1] ELSE 1)
            * Edges13Product(i, r, n - 1)

RECURSIVE Source13Product(_, _, _)
\* product of expf(-edge_value) over the source edges < n that join a
\* 1-rotamer bead and a bead of 3-rotamer residue i in rotamer r
Source13Product(i, r, n) ==
    IF n = 0 THEN 1
    ELSE (IF /\ NRotOf(EndsOf(n - 1)[1]) = 1
             /\ EndsOf(n - 1)[2] = PackId(i, 3, r)
          THEN ExpNeg(inp.edges[n].value) ELSE 1)
            * Source13Product(i, r, n - 1)

\* C7: after fill_holders, nodes3.prob[r, i] is the product of the one-body
\* factors of the beads decoding to (i, 3, r) and of edges13.prob[r, e] of
\* every (1,3) edge e with edge_indices2[e] = i, which is the product of the
\* factors of the (1,3) source edges at (i, r), each once; and the energy
\* readout has one term per node and per edges11/edges33 edge, none for
\* edges13.
C7_Edges13FoldedOnce ==
    /\ pc = "filled" =>
          \A i \in 0..(rs.nodes3.n_elem - 1), r \in 0..2 :
              /\ rs.nodes3.prob[i][r + 1] =
                    OneBodyProduct(PackId(i, 3, r), Len(ids))
                        * Edges13Product(i, r, rs.edges13.n_edge)
              /\ Edges13Product(i, r, rs.edges13.n_edge)
                    = Source13Product(i, r, Len(inp.edges))
    /\ (pc = "done" /\ inp.mode = "PotentialAndDerivMode") =>
          /\ \A t \in 1..Len(rs.potential) : rs.potential[t].kind # "edges13"
          /\ Len(rs.potential) = rs.nodes1.n_elem + rs.nodes3.n_elem
                                    + rs.edges11.n_edge + rs.edges33.n_edge

\* witness for C7: fill_holders has folded two (1,3) edges into nodes3, one
\* of them onto a rotamer that also carries one-body factors of two beads
C7_Witness ==
    /\ pc = "filled"
    /\ rs.edges13.n_edge = 2
    /\ OneBodyProduct(PackId(0, 3, 0), Len(ids)) = 4
    /\ Edges13Product(0, 0, rs.edges13.n_edge) = 2
    /\ rs.nodes3.prob[0][1] = 8
    /\ rs.nodes3.prob[1][1] > 4

\* C10: nodes1.cur_belief keeps its construction-time value 1 through every
\* operation, and after every evaluation each deriv slot of each bead of a
\* 1-rotamer residue holds exactly 1.
C10_SingletonOccupationIsOne ==
    pc \in {"constructed", "ub", "filled", "loop", "solved", "propagated", "done"} =>
        /\ \A i \in 0..(rs.nodes1.n_elem - 1) : rs.nodes1.cur_belief[i] = Lit(<<1>>)
        /\ pc \in {"propagated", "done"} =>
              \A n \in Beads : NRotOf(ids[n]) = 1 =>
                  \A k \in 0..(n_prob_nodes - 1) :
                      rs.deriv[(n - 1) * n_prob_nodes + k] = <<"f", 1>>

\* witness for C10: a second evaluation is done in which the 1-rotamer
\* residues carry one-body factors and both (1,1) and (1,3) edges
C10_Witness ==
    /\ pc = "done"
    /\ nEval = 2
    /\ rs.nodes1.n_elem = 2
    /\ rs.nodes1.prob[0][1] = 4
    /\ rs.edges11.n_edge = 1
    /\ rs.edges13.n_edge = 2
    /\ rs.sweeps = 2

Filled == pc \in {"filled", "loop", "solved", "propagated", "done"}
EdgeHolderNames == {"edges11", "edges13", "edges33"}

\* the add_to_edge call recorded as entry k of holder hn is the call for
\* bead a as endpoint 1 and bead b as endpoint 2
CallIsFor(hn, k, a, b) ==
    LET h  == rs[hn]
        el == h.edge_loc[k]
    IN  /\ edge_holders_matrix(NRotOf(a), NRotOf(b)) = hn
        /\ h.n_rot1 = NRotOf(a)
        /\ h.n_rot2 = NRotOf(b)
        /\ h.n_rot1 <= h.n_rot2
        /\ h.edge_indices1[el.ne] = ResOf(a)
        /\ h.edge_indices2[el.ne] = ResOf(b)
        /\ RotOf(a) < h.n_rot1
        /\ RotOf(b) < h.n_rot2
        /\ el.dim = RotOf(a) * h.n_rot2 + RotOf(b)

\* C11: every source edge between beads with n_rot in {1,3} is passed to
\* one of the holders edges11/edges13/edges33 (n_rot1 <= n_rot2, never a
\* (3,1) holder), with one endpoint bead supplying id1, rot1 and n_rot1 and
\* the other id2, rot2 and n_rot2, and rot1 < n_rot1, rot2 < n_rot2.
C11_EdgeDispatchCanonical ==
    Filled =>
        \A ne \in SrcEdgeNums :
            LET b1 == ids[inp.edges[ne + 1].i1]
                b2 == ids[inp.edges[ne + 1].i2]
            IN  \E hn \in EdgeHolderNames :
                    \E k \in LocsOf(rs[hn], ne) :
                        CallIsFor(hn, k, b1, b2) \/ CallIsFor(hn, k, b2, b1)

\* witness for C11: fill_holders has dispatched an edge reported as
\* (3-rotamer bead of residue 1, 1-rotamer bead of residue 0): it sits in
\* edges13 with the 1-rotamer residue first; (1,1) and (3,3) edges went to
\* their holders in the same evaluation
C11_Witness ==
    /\ pc = "filled"
    /\ Len(inp.edges) = 6
    /\ NRotOf(ids[inp.edges[3].i1]) = 3
    /\ NRotOf(ids[inp.edges[3].i2]) = 1
    /\ \E k \in LocsOf(rs.edges13, 2) :
          /\ rs.edges13.edge_indices1[rs.edges13.edge_loc[k].ne] = 0
          /\ rs.edges13.edge_indices2[rs.edges13.edge_loc[k].ne] = 1
    /\ rs.edges11.n_edge = 1
    /\ rs.edges33.n_edge = 1

\* max_n_edge of the three edge holders, from the residue counts
MaxNEdge(hn) ==
    LET n1 == rs.n_elem_rot[1]
        n3 == rs.n_elem_rot[3]
    IN  CASE hn = "edges11" -> (n1 * (n1 + 1)) \div 2
          [] hn = "edges13" -> n1 * n3
          [] hn = "edges33" -> (n3 * (n3 + 1)) \div 2

\* C12: in every evaluation, n_edge of edges11, edges13 and edges33 never
\* exceeds the max_n_edge the holder was constructed with, for any list of
\* edges between beads of the construction-time id set, residue pairs
\* reported in both endpoint orders included; add_to_edge never writes past
\* the holders' arrays.
C12_NEdgeWithinMaxNEdge ==
    /\ Filled => \A hn \in EdgeHolderNames : rs[hn].n_edge <= MaxNEdge(hn)
    /\ (pc = "ub" /\ ~FillDerefsNull(ids)) => ~FillWritesPastAllocation(rs, ids, inp)

Nodes3Elems == 0..(rs.nodes3.n_elem - 1)
LiveEdges33 == 0..(rs.edges33.n_edge - 1)

\* a main-loop sweep of the solve in progress has just run
AfterMainSweep == pc = "loop" /\ rs.sweeps >= 1

\* the cur_belief buffers hold the output of the latest sweep
CurIsLastOutput ==
    /\ \A i \in Nodes3Elems : rs.nodes3.cur_belief[i] = rs.lastOut.nodes3[i]
    /\ \A e \in LiveEdges33 : rs.edges33.cur_belief[e] = rs.lastOut.edges33[e]

\* old_belief, which the latest sweep read and which max_deviation compares
\* cur_belief with, holds what the sweep before it wrote to cur_belief
Edges33OldIsPreviousOutput ==
    \A e \in LiveEdges33 : rs.edges33.old_belief[e] = rs.prevOut.edges33[e]
Nodes3OldIsPreviousOutput ==
    \A i \in Nodes3Elems : rs.nodes3.old_belief[i] = rs.prevOut.nodes3[i]

\* C14 as stated: in every main-loop sweep the old_belief buffers of nodes3
\* and of edges33 are the cur_belief buffers the preceding sweep wrote (the
\* warm-up preceding the first), and max_deviation compares the last sweep's
\* output with the output of the sweep before it.
C14_OldBeliefIsPreviousOutput ==
    AfterMainSweep =>
        /\ CurIsLastOutput
        /\ Edges33OldIsPreviousOutput
        /\ Nodes3OldIsPreviousOutput

\* C14 amended: the above holds for edges33 in every main-loop sweep, and
\* for nodes3 in every main-loop sweep but the first; in the first, the
\* nodes3.old_belief read (and compared by max_deviation when the chunk has
\* one sweep) is the seed nodes3.prob, the node beliefs the warm-up wrote
\* having been overwritten.
C14_OldBeliefIsPreviousOutputButSeed ==
    AfterMainSweep =>
        /\ CurIsLastOutput
        /\ Edges33OldIsPreviousOutput
        /\ (rs.sweeps >= 2 => Nodes3OldIsPreviousOutput)
        /\ (rs.sweeps = 1 =>
                \A i \in Nodes3Elems :
                    /\ rs.nodes3.old_belief[i] = Lit(rs.nodes3.prob[i])
                    /\ rs.nodes3.old_belief[i] # rs.prevOut.nodes3[i])

\* witness for C14: the second sweep of a chunk of two has run on two
\* 3-rotamer residues joined by an edge; it read the first sweep's output
C14_Witness ==
    /\ pc = "loop"
    /\ rs.sweeps = 2
    /\ rs.j = 2
    /\ rs.nodes3.n_elem = 2
    /\ rs.edges33.n_edge = 1
    /\ rs.nodes3.old_belief[0] = rs.prevOut.nodes3[0]
    /\ rs.prevOut.nodes3[0][1] = "finish"
    /\ rs.edges33.old_belief[0] = rs.prevOut.edges33[0]

InitSpecStore == InitStore /\ EdgeIdle /\ SolverIdle
InitSpecEdge  == InitEdge /\ StoreIdle /\ SolverIdle
InitSpec      == InitSolver(BeadConfigs, {DefaultGrp}) /\ StoreIdle /\ EdgeIdle
InitSpecSolve == InitSolver({PairIds}, SolveGrps) /\ StoreIdle /\ EdgeIdle

SpecStore == InitSpecStore /\ [][NextStore]_vars
SpecEdge  == InitSpecEdge /\ [][NextEdge]_vars
Spec      == InitSpec /\ [][NextSolver]_vars
\* the solver is sequential code: whenever a step is possible it is taken
SpecSolve == InitSpecSolve /\ [][NextSolver]_vars /\ WF_vars(NextSolver)

====
